---- MODULE Spec2Model ----
(***************************************************************************)
(* Model of the educational roguelike's decision engine:                   *)
(*   - SpacedRepetitionEngine (src/spaced_repetition.py): review_card and  *)
(*     the four _process_* branches, get_card_priority;                    *)
(*   - CardSelector / CardManager (src/card_manager.py);                   *)
(*   - GameEngine (src/game_engine.py): new_game, reveal_card,             *)
(*     answer_card, use_powerup.                                           *)
(*                                                                         *)
(* Conventions.                                                            *)
(*   Time is an integer number of minutes; datetime.now() is the variable  *)
(*   now, None is NoTime.  One day is DAY minutes.                         *)
(*   ease_factor is held in hundredths (2.5 is 250), so that the float     *)
(*   arithmetic of the source becomes integer arithmetic; int(x) of a      *)
(*   non-negative product becomes \div.  The source's float ease_factor    *)
(*   can differ from its decimal value by a few units in the last place    *)
(*   after several +0.15 / -0.15 / -0.2 steps; int(interval * ease_factor) *)
(*   is then one less than the exact quotient used here when the exact     *)
(*   product is a whole number (first after five reviews of a card, e.g.   *)
(*   AGAIN, EASY, GOOD, EASY, GOOD gives 51 in the source, 52 here).  The  *)
(*   HARD branch and the ease_factor bounds are exact.                     *)
(*   Optional strings use the string "None".                               *)
(***************************************************************************)
EXTENDS Integers, Sequences, FiniteSets, TLC

\* -------------------------------------------------------------------------
\* Bounds of the model (not program constants)
\* -------------------------------------------------------------------------
\* reviews explored on the single card of the scheduler specification
MaxCardReviews == 7
\* whole days the clock may advance in the scheduler specification
MaxDays == 2
\* answers a game session processes
MaxReviews == 4
\* encounters of a game (config.TOTAL_ENCOUNTERS is 10)
TOTAL_ENCOUNTERS == 2
\* rows of the game_saves table
MaxSaves == 1
\* answers processed in the persistence specification
MaxSavedReviews == 3
\* answers of a session played to its end
MaxPlayReviews == 40
\* encounters of a game in the enemy specification (the configured number)
MaxEncounters == 10

\* -------------------------------------------------------------------------
\* Time
\* -------------------------------------------------------------------------
NoTime == 0 - 1
DAY == 1440

Min(a, b) == IF a < b THEN a ELSE b
Max(a, b) == IF a > b THEN a ELSE b
\* floor(a * m / d) for a, m >= 0 and d > 0, computed without forming a * m
MulDiv(a, m, d) == (a \div d) * m + ((a % d) * m) \div d

\* -------------------------------------------------------------------------
\* ResponseQuality (spaced_repetition.py)
\* -------------------------------------------------------------------------
Responses == {"again", "hard", "good", "easy"}

\* ResponseQuality.from_string: unknown strings fall back to GOOD
from_string(value) ==
    CASE value = "again" -> "AGAIN"
      [] value = "hard" -> "HARD"
      [] value = "good" -> "GOOD"
      [] value = "easy" -> "EASY"
      [] OTHER -> "GOOD"

\* -------------------------------------------------------------------------
\* CardReviewState (spaced_repetition.py)
\* -------------------------------------------------------------------------
CardReviewState(id) ==
    [card_id |-> id,
     ease_factor |-> 250,
     interval |-> 0,
     repetitions |-> 0,
     last_review |-> NoTime,
     next_review |-> NoTime,
     total_reviews |-> 0,
     total_correct |-> 0,
     total_incorrect |-> 0,
     total_hard |-> 0,
     is_learning |-> TRUE,
     is_lapsed |-> FALSE,
     last_response |-> "None"]

\* CardReviewState.is_due at time t
is_due(s, t) == IF s.next_review = NoTime THEN TRUE ELSE t >= s.next_review

\* -------------------------------------------------------------------------
\* SpacedRepetitionEngine (spaced_repetition.py)
\* -------------------------------------------------------------------------
min_ease_factor == 130
max_ease_factor == 350
ease_bonus == 15
ease_penalty == 15
ease_hard_penalty == 20
initial_learning_intervals == <<1, 10>>
graduating_interval == 1
easy_interval == 4
\* hard_multiplier 1.2 and easy_bonus 1.3, in hundredths
hard_multiplier == 120
easy_bonus == 130

\* initial_learning_intervals[i] with Python's 0-based index
LearningStep(i) == initial_learning_intervals[i + 1]

\* AgainEase without the floor at min_ease_factor
AgainEase_unfloored(e) == e - ease_hard_penalty
\* the ease factor after AGAIN: max(min_ease_factor, ease - ease_hard_penalty)
AgainEase(e) == Max(min_ease_factor, e - ease_hard_penalty)
\* the ease factor after HARD: max(min_ease_factor, ease - ease_penalty)
HardEase(e) == Max(min_ease_factor, e - ease_penalty)
\* the ease factor after EASY: min(max_ease_factor, ease + ease_bonus)
EasyEase(e) == Min(max_ease_factor, e + ease_bonus)

process_again_keepInterval(s, t) ==
    LET s1 == [s EXCEPT !.total_incorrect = @ + 1,
                        !.is_learning = TRUE]
    IN [s1 EXCEPT !.ease_factor = AgainEase(@),
                  !.next_review = t + LearningStep(0)]
\* _process_again: is_learning is assigned before is_lapsed reads it
process_again(s, t) ==
    LET s1 == [s EXCEPT !.total_incorrect = @ + 1,
                        !.repetitions = 0,
                        !.is_learning = TRUE]
        s2 == [s1 EXCEPT !.is_lapsed = ~s1.is_learning]
    IN [s2 EXCEPT !.ease_factor = AgainEase(@),
                  !.interval = 0,
                  !.next_review = t + LearningStep(0)]

process_hard_graduatesAtLastStep(s, t) ==
    LET s1 == [s EXCEPT !.total_hard = @ + 1,
                        !.ease_factor = HardEase(@)]
    IN IF s1.is_learning
       THEN IF s1.repetitions + 1 < Len(initial_learning_intervals)
            THEN [s1 EXCEPT !.repetitions = @ + 1,
                            !.next_review = t + LearningStep(s1.repetitions + 1)]
            ELSE [s1 EXCEPT !.repetitions = @ + 1,
                            !.is_learning = FALSE,
                            !.interval = 1,
                            !.next_review = t + DAY]
       ELSE LET iv == Max(1, (s1.interval * hard_multiplier) \div 100)
            IN [s1 EXCEPT !.repetitions = @ + 1,
                          !.interval = iv,
                          !.next_review = t + iv * DAY]
\* _process_hard
process_hard(s, t) ==
    LET s1 == [s EXCEPT !.total_hard = @ + 1,
                        !.ease_factor = HardEase(@)]
    IN IF s1.is_learning
       THEN IF s1.repetitions < Len(initial_learning_intervals)
            THEN LET r == s1.repetitions + 1
                 IN [s1 EXCEPT !.repetitions = r,
                               !.next_review = t + LearningStep(
                                   Min(r, Len(initial_learning_intervals) - 1))]
            ELSE LET iv == Max(1, (graduating_interval * 8) \div 10)
                 IN [s1 EXCEPT !.is_learning = FALSE,
                               !.interval = iv,
                               !.next_review = t + iv * DAY]
       ELSE LET iv == Max(1, (s1.interval * hard_multiplier) \div 100)
            IN [s1 EXCEPT !.repetitions = @ + 1,
                          !.interval = iv,
                          !.next_review = t + iv * DAY]

\* _process_good
process_good(s, t) ==
    LET s1 == [s EXCEPT !.total_correct = @ + 1,
                        !.repetitions = @ + 1]
    IN IF s.is_learning
       THEN IF s1.repetitions >= Len(initial_learning_intervals)
            THEN [s1 EXCEPT !.is_learning = FALSE,
                            !.is_lapsed = FALSE,
                            !.interval = graduating_interval,
                            !.next_review = t + graduating_interval * DAY]
            ELSE [s1 EXCEPT !.next_review = t + LearningStep(s1.repetitions)]
       ELSE LET iv == IF s1.repetitions = 1 THEN 1
                      ELSE IF s1.repetitions = 2 THEN 6
                      ELSE (s1.interval * s1.ease_factor) \div 100
            IN [s1 EXCEPT !.interval = iv,
                          !.next_review = t + iv * DAY]

process_easy_repetitionsReset(s, t) ==
    LET s1 == [s EXCEPT !.total_correct = @ + 1,
                        !.ease_factor = EasyEase(@)]
    IN IF s1.is_learning
       THEN [s1 EXCEPT !.is_learning = FALSE,
                       !.is_lapsed = FALSE,
                       !.repetitions = 0,
                       !.interval = easy_interval,
                       !.next_review = t + easy_interval * DAY]
       ELSE LET r == s1.repetitions + 1
                iv == IF r = 1 THEN easy_interval
                      ELSE MulDiv(s1.interval, s1.ease_factor * easy_bonus, 10000)
            IN [s1 EXCEPT !.repetitions = r,
                          !.interval = iv,
                          !.next_review = t + iv * DAY]
\* _process_easy
process_easy(s, t) ==
    LET s1 == [s EXCEPT !.total_correct = @ + 1,
                        !.ease_factor = EasyEase(@)]
    IN IF s1.is_learning
       THEN [s1 EXCEPT !.is_learning = FALSE,
                       !.is_lapsed = FALSE,
                       !.repetitions = 1,
                       !.interval = easy_interval,
                       !.next_review = t + easy_interval * DAY]
       ELSE LET r == s1.repetitions + 1
                iv == IF r = 1 THEN easy_interval
                      ELSE MulDiv(s1.interval, s1.ease_factor * easy_bonus, 10000)
            IN [s1 EXCEPT !.repetitions = r,
                          !.interval = iv,
                          !.next_review = t + iv * DAY]

\* review_card(state, response) at time t
review_card(s, response, t) ==
    LET s0 == [s EXCEPT !.total_reviews = @ + 1,
                        !.last_review = t,
                        !.last_response = response]
    IN CASE response = "AGAIN" -> process_again(s0, t)
         [] response = "HARD" -> process_hard(s0, t)
         [] response = "GOOD" -> process_good(s0, t)
         [] response = "EASY" -> process_easy(s0, t)

\* CardReviewState.get_accuracy() < 60, without the division
accuracy_below_60(s) ==
    IF s.total_reviews = 0 THEN TRUE
    ELSE s.total_correct * 100 < 60 * s.total_reviews

\* get_card_priority with the lapsed signal left out
get_card_priority_noLapsed(s, t) ==
    LET overdue_score ==
            IF s.next_review # NoTime /\ t >= s.next_review
            THEN Min(50, ((t - s.next_review) \div DAY) * 5)
            ELSE 0
        new_card_score == IF s.total_reviews = 0 THEN 20 ELSE 0
        difficulty_score ==
            IF accuracy_below_60(s) /\ s.total_reviews >= 3 THEN 20 ELSE 0
        learning_score == IF s.is_learning THEN 15 ELSE 0
    IN Min(100, overdue_score + new_card_score + difficulty_score + learning_score)

\* get_card_priority(state) at time t
get_card_priority(s, t) ==
    LET overdue_score ==
            IF s.next_review # NoTime /\ t >= s.next_review
            THEN Min(50, ((t - s.next_review) \div DAY) * 5)
            ELSE 0
        new_card_score == IF s.total_reviews = 0 THEN 20 ELSE 0
        difficulty_score ==
            IF accuracy_below_60(s) /\ s.total_reviews >= 3 THEN 20 ELSE 0
        learning_score == IF s.is_learning THEN 15 ELSE 0
        lapsed_score == IF s.is_lapsed THEN 25 ELSE 0
    IN Min(100, overdue_score + new_card_score + difficulty_score
                + learning_score + lapsed_score)

\* -------------------------------------------------------------------------
\* CardSelector (card_manager.py)
\* -------------------------------------------------------------------------
\* CardSelector.__init__: new_cards_per_session defaults to 20
new_cards_per_session == 20

\* the deck: the list of card ids, in the order of the cards list
Cards == <<1, 2>>
CardIds == {Cards[i] : i \in 1..Len(Cards)}
NoCard == 0

Range(seq) == {seq[i] : i \in 1..Len(seq)}

\* list.sort(key, reverse=True)[0]: the sort is stable, so of the items with
\* the greatest key the one earliest in the list comes first;
\* key maps each item to its sort key
FirstMax(seq, key) ==
    seq[CHOOSE i \in 1..Len(seq) :
            /\ \A j \in 1..Len(seq) : key[seq[j]] <= key[seq[i]]
            /\ \A j \in 1..(i - 1) : key[seq[j]] < key[seq[i]]]

\* list.sort(key)[0]: of the items with the least key the earliest in the list
FirstMin(seq, key) ==
    seq[CHOOSE i \in 1..Len(seq) :
            /\ \A j \in 1..Len(seq) : key[seq[j]] >= key[seq[i]]
            /\ \A j \in 1..(i - 1) : key[seq[j]] > key[seq[i]]]

\* the sort key of the future class: next_review or datetime.max
FarFuture == 1000000000
\* future_key ordering the latest next_review first
future_key_latest(s) == IF s.next_review = NoTime THEN FarFuture ELSE FarFuture - s.next_review
future_key(s) == IF s.next_review = NoTime THEN FarFuture ELSE s.next_review

\* priority_map.get(last_response.upper(), 999) of the recycle class
recycle_key(s) ==
    CASE s.last_response = "HARD" -> 1
      [] s.last_response = "AGAIN" -> 2
      [] s.last_response = "GOOD" -> 3
      [] OTHER -> 999

\* the four lists select_next_card classifies the cards into
learning_list(cards, st) ==
    SelectSeq(cards, LAMBDA c : st[c].is_learning)
new_list(cards, st) ==
    SelectSeq(cards, LAMBDA c : ~st[c].is_learning /\ st[c].total_reviews = 0)
due_list(cards, st, t) ==
    SelectSeq(cards, LAMBDA c : /\ ~st[c].is_learning
                                /\ st[c].total_reviews # 0
                                /\ is_due(st[c], t))
future_list_dropped(cards, st, t) == <<>>
\* future_review: the cards of the final else branch of the classification
future_list(cards, st, t) ==
    SelectSeq(cards, LAMBDA c : /\ ~st[c].is_learning
                                /\ st[c].total_reviews # 0
                                /\ ~is_due(st[c], t))
\* the reviewed_cards list of step 5
reviewed_list(cards, st) ==
    SelectSeq(cards, LAMBDA c : st[c].last_response \in {"HARD", "AGAIN", "GOOD"})

\* select_next_card(cards, states, sr_engine) with new_cards_shown = shown at
\* time t: the set of possible results [card, shown], card = NoCard for None
\* and shown the value of new_cards_shown after the call.  random.choice may
\* return any card of the new list.
select_next_card(cards, st, shown, t) ==
    LET learning == learning_list(cards, st)
        due_for_review == due_list(cards, st, t)
        new_cards == new_list(cards, st)
        future_review == future_list(cards, st, t)
        reviewed_cards == reviewed_list(cards, st)
        prio == [c \in Range(cards) |-> get_card_priority(st[c], t)]
        fkey == [c \in Range(cards) |-> future_key(st[c])]
        rkey == [c \in Range(cards) |-> recycle_key(st[c])]
    IN IF cards = <<>> THEN {[card |-> NoCard, shown |-> shown]}
       ELSE IF learning # <<>>
       THEN {[card |-> FirstMax(learning, prio), shown |-> shown]}
       ELSE IF due_for_review # <<>>
       THEN {[card |-> FirstMax(due_for_review, prio), shown |-> shown]}
       ELSE IF new_cards # <<>> /\ shown < new_cards_per_session
       THEN {[card |-> c, shown |-> shown + 1] : c \in Range(new_cards)}
       ELSE IF future_review # <<>>
       THEN {[card |-> FirstMin(future_review, fkey), shown |-> shown]}
       ELSE IF reviewed_cards # <<>>
       THEN {[card |-> FirstMin(reviewed_cards, rkey), shown |-> shown]}
       ELSE {[card |-> NoCard, shown |-> shown]}

\* -------------------------------------------------------------------------
\* Game configuration (src/config.py)
\* -------------------------------------------------------------------------
PLAYER_MAX_HP == 100
PLAYER_STARTING_LEVEL == 1

\* config.POWERUPS[id]['effect'].  An effect key that is absent is 0: healing,
\* shielding or hitting by 0 changes nothing, and no boost in the table is 0.
\* Boost factors are in hundredths.
Effect(heal, shield, damage_boost, score_boost, duration, instant_damage) ==
    [heal |-> heal, shield |-> shield, damage_boost |-> damage_boost,
     score_boost |-> score_boost, duration |-> duration,
     instant_damage |-> instant_damage]

POWERUPS ==
    [health_potion |-> Effect(30, 0, 0, 0, 0, 0),
     mega_potion   |-> Effect(50, 0, 0, 0, 0, 0),
     max_restore   |-> Effect(999, 0, 0, 0, 0, 0),
     shield_potion |-> Effect(0, 20, 0, 0, 0, 0),
     iron_shield   |-> Effect(0, 35, 0, 0, 0, 0),
     damage_boost  |-> Effect(0, 0, 200, 0, 3, 0),
     lucky_coin    |-> Effect(0, 0, 0, 150, 3, 0),
     energy_drink  |-> Effect(20, 10, 0, 0, 0, 0),
     fireball      |-> Effect(0, 0, 0, 0, 0, 40),
     lightning     |-> Effect(0, 0, 0, 0, 0, 50),
     ice_shard     |-> Effect(0, 0, 0, 0, 0, 35),
     meteor        |-> Effect(0, 0, 0, 0, 0, 80),
     holy_light    |-> Effect(20, 0, 0, 0, 0, 30),
     poison_dart   |-> Effect(0, 0, 0, 0, 0, 25)]

ENEMY_TYPES ==
    [slime    |-> [hp |-> 30,  damage |-> 10, score |-> 100],
     skeleton |-> [hp |-> 50,  damage |-> 15, score |-> 200],
     ghost    |-> [hp |-> 40,  damage |-> 20, score |-> 250],
     zombie   |-> [hp |-> 70,  damage |-> 18, score |-> 300],
     demon    |-> [hp |-> 90,  damage |-> 25, score |-> 400],
     dragon   |-> [hp |-> 120, damage |-> 30, score |-> 500]]

BOSS_TYPES ==
    [lich_king      |-> [hp |-> 200, damage |-> 35, score |-> 1000],
     ancient_dragon |-> [hp |-> 250, damage |-> 40, score |-> 1200],
     demon_lord     |-> [hp |-> 220, damage |-> 38, score |-> 1100],
     void_beast     |-> [hp |-> 240, damage |-> 42, score |-> 1300]]

\* -------------------------------------------------------------------------
\* ResponseQuality damage (src/spaced_repetition.py)
\* -------------------------------------------------------------------------
\* get_damage_multiplier, in tenths
get_damage_multiplier(q) ==
    CASE q = "AGAIN" -> 0
      [] q = "HARD"  -> 3
      [] q = "GOOD"  -> 10
      [] q = "EASY"  -> 20

\* get_damage_range(base_damage = 20): int(base * m * 0.8), int(base * m * 1.2)
get_damage_range(q) ==
    LET multiplier == get_damage_multiplier(q) IN
    IF multiplier = 0 THEN <<0, 0>>
    ELSE <<(20 * multiplier * 8) \div 100, (20 * multiplier * 12) \div 100>>

\* random.randint(lo, hi) of CardManager.answer_card: the draws explored are
\* the two ends of the range
DamageRolls(q) == {get_damage_range(q)[1], get_damage_range(q)[2]}

\* -------------------------------------------------------------------------
\* GameEngine pure parts (src/game_engine.py)
\* -------------------------------------------------------------------------
NewPlayer ==
    [hp |-> PLAYER_MAX_HP, max_hp |-> PLAYER_MAX_HP,
     level |-> PLAYER_STARTING_LEVEL, score |-> 0,
     damage_boost |-> 100, shield |-> 0, score_boost |-> 100]

NoEnemy ==
    [enemy_type |-> "None", hp |-> 0, max_hp |-> 0, damage |-> 0,
     score_value |-> 0, difficulty |-> 0, is_boss |-> FALSE]

\* GameEngine.state = None, before new_game (deck_id 0 is no deck)
NoGame ==
    [deck_id |-> 0, player |-> NewPlayer, current_enemy |-> NoEnemy,
     current_encounter |-> 0, total_encounters |-> 0,
     cards_reviewed |-> 0, cards_correct |-> 0,
     active_powerups |-> [damage_boost |-> 0, score_boost |-> 0],
     inventory |-> <<>>, current_card |-> NoCard, card_revealed |-> FALSE]

\* int(base * scale_factor) with scale_factor = 1 + (n - 1) * 0.2 computed in
\* binary floating point: for n = 3 and n = 10 the factor lies just below 1.4
\* and 2.8, and the products 90 * f and 1300 * f fall below the integer.
float_shortfall(base, n) ==
    IF n \in {3, 10} /\ base \in {90, 1300} THEN 1 ELSE 0

scaled(base, n) == (base * (10 + (n - 1) * 2)) \div 10 - float_shortfall(base, n)

make_enemy_untagged(type, data, n, boss) ==
    [enemy_type |-> type,
     hp |-> scaled(data.hp, n), max_hp |-> scaled(data.hp, n),
     damage |-> scaled(data.damage, n),
     score_value |-> scaled(data.score, n),
     difficulty |-> 1, is_boss |-> boss]
\* Enemy(...) of _generate_enemy and _generate_boss
make_enemy(type, data, n, boss) ==
    [enemy_type |-> type,
     hp |-> scaled(data.hp, n), max_hp |-> scaled(data.hp, n),
     damage |-> scaled(data.damage, n),
     score_value |-> scaled(data.score, n),
     difficulty |-> n, is_boss |-> boss]

\* _generate_boss: random.choice over BOSS_TYPES
generate_boss(n) ==
    {make_enemy(b, BOSS_TYPES[b], n, TRUE) : b \in DOMAIN BOSS_TYPES}

\* the pool _generate_enemy draws from: progress = n / total against 0.3, 0.7
enemy_types(n, total) ==
    IF 10 * n < 3 * total THEN {"slime", "skeleton", "ghost"}
    ELSE IF 10 * n < 7 * total THEN {"skeleton", "ghost", "zombie"}
    ELSE {"zombie", "demon", "dragon"}

\* _generate_enemy(encounter_number)
generate_enemy(n, total) ==
    IF n = total THEN generate_boss(n)
    ELSE {make_enemy(e, ENEMY_TYPES[e], n, FALSE) : e \in enemy_types(n, total)}

\* _try_drop_powerup: nothing, or any powerup (every drop_chance is positive)
try_drop_powerup == {"None"} \cup DOMAIN POWERUPS

dropped_onEveryAnswer(enemy_defeated, explored_drops) ==
    try_drop_powerup \cap explored_drops
\* the drop of an answer: _try_drop_powerup is called when the enemy is defeated
dropped(enemy_defeated, explored_drops) ==
    IF enemy_defeated THEN try_drop_powerup \cap explored_drops ELSE {"None"}

\* damage = int(damage * player.damage_boost) when the boost exceeds 1.0
boosted_damage(damage, boost) ==
    IF boost > 100 THEN (damage * boost) \div 100 ELSE damage

instant_damage_defeating(gs, damage) ==
    IF damage > 0 /\ gs.current_enemy.hp <= damage
    THEN [gs EXCEPT !.current_enemy.hp = 0,
                    !.player.score = @ + gs.current_enemy.score_value,
                    !.current_encounter = @ + 1]
    ELSE [gs EXCEPT !.current_enemy.hp = Max(0, @ - damage)]
\* the instant_damage effect of use_powerup: the enemy's hp, floored at 0
instant_damage(gs, damage) ==
    [gs EXCEPT !.current_enemy.hp = Max(0, @ - damage)]

\* the early returns of answer_card
answer_rejected_noReveal(gs) == gs.current_card = NoCard
answer_rejected(gs) == gs.current_card = NoCard \/ ~gs.card_revealed

\* the enemy's attack on an answer that did no damage: shield first, then hp
enemy_attack_unfloored(p, enemy_damage) ==
    LET absorbed == IF p.shield > 0 THEN Min(p.shield, enemy_damage) ELSE 0
        remaining == enemy_damage - absorbed
    IN [p EXCEPT !.shield = @ - absorbed, !.hp = @ - remaining]
enemy_attack_blocked(p, enemy_damage) ==
    IF p.shield > 0 THEN p ELSE [p EXCEPT !.hp = Max(0, @ - enemy_damage)]
enemy_attack(p, enemy_damage) ==
    LET absorbed == IF p.shield > 0 THEN Min(p.shield, enemy_damage) ELSE 0
        remaining == enemy_damage - absorbed
    IN [p EXCEPT !.shield = @ - absorbed,
                 !.hp = IF remaining > 0 THEN Max(0, @ - remaining) ELSE @]

\* the keys of CardReviewState.to_dict()
to_dict_keys ==
    {"card_id", "ease_factor", "interval", "repetitions", "last_review",
     "next_review", "total_reviews", "total_correct", "total_incorrect",
     "total_hard", "is_learning", "is_lapsed", "last_response", "accuracy",
     "difficulty"}

\* ReviewStateManager.bulk_save_states reads state['deck_id'] of every item
bulk_save_states_raises(sts) ==
    (DOMAIN sts # {}) /\ ("deck_id" \notin to_dict_keys)

remove_kept(seq, x) == seq
\* list.remove(x): drops the first occurrence of x.  use_powerup calls it
\* for an x that is in the list only (Python raises for any other).
remove(seq, x) ==
    LET at == {k \in 1..Len(seq) : seq[k] = x} \cup {Len(seq) + 1}
        i == CHOOSE k \in at : \A j \in at : k <= j
    IN SubSeq(seq, 1, i - 1) \o SubSeq(seq, i + 1, Len(seq))

powerup_rejected_unknownOnly(gs, powerup_id) == powerup_id \notin DOMAIN POWERUPS
\* the early returns of use_powerup: not in the inventory, or no such powerup
powerup_rejected(gs, powerup_id) ==
    powerup_id \notin Range(gs.inventory) \/ powerup_id \notin DOMAIN POWERUPS

healed_uncapped(p, heal) == p.hp + heal
\* player.hp = min(player.max_hp, player.hp + heal)
healed(p, heal) == Min(p.max_hp, p.hp + heal)

\* a float percentage num / den * 100 (0 when den is 0), kept as the
\* fraction it was computed from
percent(num, den) ==
    IF den > 0 THEN [num |-> num, den |-> den] ELSE [num |-> 0, den |-> 1]

\* Player.to_dict and Enemy.to_dict: the fields, with hp_percent added
Player_to_dict(p) ==
    [hp |-> p.hp, max_hp |-> p.max_hp, level |-> p.level, score |-> p.score,
     damage_boost |-> p.damage_boost, shield |-> p.shield,
     score_boost |-> p.score_boost, hp_percent |-> percent(p.hp, p.max_hp)]

Enemy_to_dict(e) ==
    [enemy_type |-> e.enemy_type, hp |-> e.hp, max_hp |-> e.max_hp,
     damage |-> e.damage, score_value |-> e.score_value,
     difficulty |-> e.difficulty, is_boss |-> e.is_boss,
     hp_percent |-> percent(e.hp, e.max_hp)]

\* Player.from_dict and Enemy.from_dict: hp_percent is dropped
Player_from_dict(d) ==
    [hp |-> d.hp, max_hp |-> d.max_hp, level |-> d.level, score |-> d.score,
     damage_boost |-> d.damage_boost, shield |-> d.shield,
     score_boost |-> d.score_boost]

Enemy_from_dict(d) ==
    [enemy_type |-> d.enemy_type, hp |-> d.hp, max_hp |-> d.max_hp,
     damage |-> d.damage, score_value |-> d.score_value,
     difficulty |-> d.difficulty, is_boss |-> d.is_boss]

\* GameState.to_dict: the nested format; cards_correct is not among the
\* keys, only the accuracy computed from it
to_dict(gs) ==
    [deck_id |-> gs.deck_id,
     player |-> Player_to_dict(gs.player),
     enemy |-> Enemy_to_dict(gs.current_enemy),
     progress |-> [current_encounter |-> gs.current_encounter,
                   total_encounters |-> gs.total_encounters,
                   percent |-> percent(gs.current_encounter, gs.total_encounters)],
     stats |-> [cards_reviewed |-> gs.cards_reviewed,
                accuracy |-> percent(gs.cards_correct, gs.cards_reviewed)],
     inventory |-> gs.inventory,
     current_card |-> gs.current_card,
     card_revealed |-> gs.card_revealed,
     active_powerups |-> gs.active_powerups]

\* int(cards_reviewed * accuracy / 100) in binary floating point, for the
\* accuracy correct / reviewed * 100 of to_dict: the product falls just below
\* the integer for these (reviewed, correct), reviewed up to 12
accuracy_shortfall(reviewed, correct) ==
    IF <<reviewed, correct>> \in
            {<<3, 1>>, <<3, 2>>, <<6, 1>>, <<6, 2>>, <<6, 4>>, <<9, 3>>, <<9, 6>>,
             <<11, 3>>, <<11, 6>>, <<12, 1>>, <<12, 2>>, <<12, 4>>, <<12, 8>>}
    THEN 1 ELSE 0

\* data['cards_correct'] = int(data['cards_reviewed'] * stats['accuracy'] / 100)
cards_correct_from_accuracy(reviewed, accuracy) ==
    accuracy.num - accuracy_shortfall(reviewed, accuracy.num)

\* GameState.from_dict on the nested format
from_dict(data) ==
    [deck_id |-> data.deck_id,
     player |-> Player_from_dict(data.player),
     current_enemy |-> Enemy_from_dict(data.enemy),
     current_encounter |-> data.progress.current_encounter,
     total_encounters |-> data.progress.total_encounters,
     cards_reviewed |-> data.stats.cards_reviewed,
     cards_correct |-> IF data.stats.cards_reviewed > 0
                       THEN cards_correct_from_accuracy(data.stats.cards_reviewed,
                                                        data.stats.accuracy)
                       ELSE 0,
     active_powerups |-> data.active_powerups,
     inventory |-> data.inventory,
     current_card |-> data.current_card,
     card_revealed |-> data.card_revealed]

get_save_firstRow(svs, save_id) ==
    IF svs # <<>> THEN <<svs[1]>> ELSE <<>>
\* GameSaveManager.get_save: the row's game_state, or nothing for an id
\* that has no row (a sequence of at most one snapshot)
get_save(svs, save_id) ==
    IF save_id \in DOMAIN svs THEN <<svs[save_id]>> ELSE <<>>

\* the session counters of the DeckStats _calculate_stats builds: a new
\* DeckStats, total_reviews and correct_reviews at their default 0
calculate_stats == [total_reviews |-> 0, correct_reviews |-> 0]

\* CardManager.answer_card: self.stats = self._calculate_stats(), then the
\* answer is counted on the new object
answered_stats(old, response) ==
    [calculate_stats EXCEPT
        !.correct_reviews = IF response \in {"good", "easy"} THEN @ + 1 ELSE @,
        !.total_reviews = @ + 1]

\* _load_next_card, given what get_next_card returned
load_next_card(gs, c) ==
    IF c # NoCard THEN [gs EXCEPT !.current_card = c, !.card_revealed = FALSE]
    ELSE [gs EXCEPT !.current_card = NoCard]

\* what a GameEngine call returned (success, flags) or raised.  response is
\* the rating string of an answer that was processed, powerup the 'powerup'
\* of use_powerup's result (the id used; a failure carries none), damage the
\* 'damage' of answer_card's result, save_id the id save_game returned or
\* load_game was called with.
Result(op, success, raised, response, enemy_defeated, player_defeated, game_won) ==
    [op |-> op, success |-> success, raised |-> raised, response |-> response,
     enemy_defeated |-> enemy_defeated, player_defeated |-> player_defeated,
     game_won |-> game_won, damage |-> 0, powerup |-> "None", save_id |-> 0]
Returned_ok(op) == Result(op, TRUE, "None", "None", FALSE, FALSE, FALSE)
Returned_failure(op) == Result(op, FALSE, "None", "None", FALSE, FALSE, FALSE)
NoResult == Result("None", FALSE, "None", "None", FALSE, FALSE, FALSE)

\* -------------------------------------------------------------------------
\* State
\* -------------------------------------------------------------------------
VARIABLES
    now,              \* datetime.now(), in minutes
    card,             \* scheduler: the CardReviewState under review
    before,           \* scheduler: the state review_card was last called on
    rating,           \* scheduler: quality of the last review_card call
    gradRun,          \* scheduler: GOOD reviews since the card graduated, when
                      \* every review since then was GOOD; -1 otherwise
    states,           \* CardManager.states: card id -> CardReviewState
    new_cards_shown,  \* CardSelector.new_cards_shown
    selected,         \* selector: result of the last select_next_card call,
                      \* with the value new_cards_shown had when it was made
    stats,            \* CardManager.stats: the session counters of DeckStats
    state,            \* GameEngine.state: the GameState, NoGame for None
    db_states,        \* review_state table: card id -> stored CardReviewState
    review_history,   \* review_history table: number of rows
    saves,            \* game_saves table: row id -> stored game_state
    result            \* what the last GameEngine call returned or raised

srVars == <<card, before, rating, gradRun>>
selVars == <<states, new_cards_shown, selected, stats>>
gameVars == <<state, db_states, review_history, saves, result>>
vars == <<now, card, before, rating, gradRun, states, new_cards_shown, selected,
          stats, state, db_states, review_history, saves, result>>

\* no select_next_card call made on the present inputs
NoCall == [card |-> 0 - 1, shown |-> 0]

SRIdle ==
    /\ card = CardReviewState(1)
    /\ before = CardReviewState(1)
    /\ rating = "None"
    /\ gradRun = 0

SelIdle ==
    /\ states = [c \in CardIds |-> CardReviewState(c)]
    /\ new_cards_shown = 0
    /\ selected = NoCall
    /\ stats = calculate_stats

GameIdle ==
    /\ state = NoGame
    /\ db_states = [c \in CardIds |-> CardReviewState(c)]
    /\ review_history = 0
    /\ saves = <<>>
    /\ result = NoResult

\* -------------------------------------------------------------------------
\* Scheduler specification: one card, reviewed with any ratings
\* -------------------------------------------------------------------------
SRInit ==
    /\ now = 0
    /\ SRIdle
    /\ SelIdle
    /\ GameIdle

\* SpacedRepetitionEngine.review_card(card, q)
Review(q) ==
    /\ card.total_reviews < MaxCardReviews
    /\ before' = card
    /\ rating' = q
    /\ card' = review_card(card, q, now)
    /\ gradRun' = IF card.is_learning THEN 0
                  ELSE IF q = "GOOD" /\ gradRun >= 0 THEN gradRun + 1
                  ELSE 0 - 1
    /\ UNCHANGED <<now, selVars, gameVars>>

\* a day passes between two reviews
SRTick ==
    /\ now < MaxDays * DAY
    /\ now' = now + DAY
    /\ UNCHANGED <<srVars, selVars, gameVars>>

SRNext ==
    \/ \E r \in Responses : Review(from_string(r))
    \/ SRTick

SpecSR == SRInit /\ [][SRNext]_vars

\* -------------------------------------------------------------------------
\* Selector specification: select_next_card on any review states
\* -------------------------------------------------------------------------
\* days a stored next_review may lie in the past / in the future
OverdueDays == {4, 7}
AheadDays == {1, 2}
SelNow == 7 * DAY
SelNextReviews ==
    {NoTime} \cup {SelNow - d * DAY : d \in OverdueDays}
             \cup {SelNow + d * DAY : d \in AheadDays}

\* review histories a stored row may carry:
\* [total_reviews, total_correct, last_response, is_lapsed].  load_states
\* copies every column unvalidated, so a row with a last_response and no
\* review is a possible input too.
SelKinds ==
    {[total_reviews |-> 0, total_correct |-> 0, last_response |-> "None", is_lapsed |-> FALSE],
     [total_reviews |-> 3, total_correct |-> 0, last_response |-> "AGAIN", is_lapsed |-> TRUE],
     [total_reviews |-> 3, total_correct |-> 0, last_response |-> "HARD", is_lapsed |-> FALSE],
     [total_reviews |-> 3, total_correct |-> 3, last_response |-> "EASY", is_lapsed |-> FALSE],
     [total_reviews |-> 0, total_correct |-> 0, last_response |-> "HARD", is_lapsed |-> FALSE],
     [total_reviews |-> 0, total_correct |-> 0, last_response |-> "GOOD", is_lapsed |-> FALSE],
     [total_reviews |-> 0, total_correct |-> 0, last_response |-> "EASY", is_lapsed |-> FALSE]}

KindOf(s) ==
    [total_reviews |-> s.total_reviews, total_correct |-> s.total_correct,
     last_response |-> s.last_response, is_lapsed |-> s.is_lapsed]

\* CardManager.load_states builds a CardReviewState from a stored row
StoredState(id, learning, kind, next) ==
    [CardReviewState(id) EXCEPT !.is_learning = learning,
                                !.is_lapsed = kind.is_lapsed,
                                !.total_reviews = kind.total_reviews,
                                !.total_correct = kind.total_correct,
                                !.last_response = kind.last_response,
                                !.next_review = next]

SelInit ==
    /\ now = SelNow
    /\ SRIdle
    /\ SelIdle
    /\ GameIdle

\* CardManager.load_states for the row of card c.  Rows are loaded one
\* attribute at a time (is_learning, the review history or next_review), which
\* reaches every combination.
load_states(c) ==
    /\ \/ \E b \in BOOLEAN :
            states' = [states EXCEPT ![c] =
                StoredState(c, b, KindOf(states[c]), states[c].next_review)]
       \/ \E k \in SelKinds :
            states' = [states EXCEPT ![c] =
                StoredState(c, states[c].is_learning, k, states[c].next_review)]
       \/ \E n \in SelNextReviews :
            states' = [states EXCEPT ![c] =
                StoredState(c, states[c].is_learning, KindOf(states[c]), n)]
    /\ states' # states
    /\ selected' = NoCall
    /\ UNCHANGED <<now, new_cards_shown, stats, srVars, gameVars>>

\* CardSelector.select_next_card(cards, states, sr_engine)
SelectNext ==
    /\ selected = NoCall
    /\ \E r \in select_next_card(Cards, states, new_cards_shown, now) :
        /\ selected' = [card |-> r.card, shown |-> new_cards_shown]
        /\ new_cards_shown' = r.shown
    /\ UNCHANGED <<now, states, stats, srVars, gameVars>>

\* CardSelector.reset_session
reset_session ==
    /\ new_cards_shown # 0
    /\ new_cards_shown' = 0
    /\ selected' = NoCall
    /\ UNCHANGED <<now, states, stats, srVars, gameVars>>

SelNext ==
    \/ \E c \in CardIds : load_states(c)
    \/ SelectNext
    \/ reset_session

SpecSel == SelInit /\ [][SelNext]_vars

\* -------------------------------------------------------------------------
\* Game specification: one GameEngine, from new_game on (src/game_engine.py)
\* -------------------------------------------------------------------------
\* app.py builds a GameEngine, calls new_game once and only then stores the
\* engine, so every other call finds a GameState.  The deck is new: no stored
\* review state.  A session is played at one instant of the clock.
Init ==
    /\ now = 0
    /\ SRIdle
    /\ SelIdle
    /\ GameIdle

\* The random draws the game specification explores: random.choice of the
\* enemy type, and the drop of _try_drop_powerup (with DamageRolls above).
ExploredEnemies == {"ghost", "lich_king", "void_beast"}
ExploredDrops == {"None", "damage_boost", "energy_drink"}
explored(enemies) == {e \in enemies : e.enemy_type \in ExploredEnemies}

\* GameEngine.new_game
new_game ==
    /\ state = NoGame
    /\ \E enemy \in explored(generate_enemy(1, TOTAL_ENCOUNTERS)) :
       \E r \in select_next_card(Cards, db_states, 0, now) :
        /\ states' = db_states
        /\ new_cards_shown' = r.shown
        /\ state' = load_next_card(
                [deck_id |-> 1, player |-> NewPlayer, current_enemy |-> enemy,
                 current_encounter |-> 1, total_encounters |-> TOTAL_ENCOUNTERS,
                 cards_reviewed |-> 0, cards_correct |-> 0,
                 active_powerups |-> [damage_boost |-> 0, score_boost |-> 0],
                 inventory |-> <<>>, current_card |-> NoCard,
                 card_revealed |-> FALSE], r.card)
    /\ stats' = calculate_stats
    /\ result' = Returned_ok("new_game")
    /\ UNCHANGED <<now, srVars, selected, db_states, review_history, saves>>

\* GameEngine.reveal_card
reveal_card ==
    /\ state # NoGame
    /\ IF state.current_card = NoCard
       THEN /\ result' = Returned_failure("reveal_card")
            /\ UNCHANGED state
       ELSE /\ state' = [state EXCEPT !.card_revealed = TRUE]
            /\ result' = Returned_ok("reveal_card")
    /\ UNCHANGED <<now, srVars, selVars, db_states, review_history, saves>>

\* GameEngine.answer_card(response), with CardManager.answer_card,
\* record_review, save_state, the combat, _end_game and _load_next_card; rolls
\* are the draws of random.randint explored, explored_drops those of
\* _try_drop_powerup, max_reviews the answers processed at most
answer_card_drawing(response, rolls, explored_drops, max_reviews) ==
    /\ state # NoGame
    /\ IF answer_rejected(state)
       THEN /\ result' = Returned_failure("answer_card")
            /\ UNCHANGED <<state, states, new_cards_shown, stats, db_states, review_history>>
       ELSE
        /\ review_history < max_reviews
        /\ \E roll \in rolls :
           LET card_id == state.current_card
               updated_state == review_card(states[card_id], from_string(response), now)
               states1 == [states EXCEPT ![card_id] = updated_state]
               damage == boosted_damage(roll, state.player.damage_boost)
               enemy1 == IF damage > 0
                         THEN [state.current_enemy EXCEPT !.hp = Max(0, @ - damage)]
                         ELSE state.current_enemy
               enemy_defeated == damage > 0 /\ enemy1.hp <= 0
               score_gain == (enemy1.score_value * state.player.score_boost) \div 100
               player1 == IF enemy_defeated
                          THEN [state.player EXCEPT !.score = @ + score_gain]
                          ELSE state.player
               player2 == IF damage = 0 THEN enemy_attack(player1, enemy1.damage)
                          ELSE player1
               player_defeated ==
                    /\ damage = 0
                    /\ enemy1.damage > player1.shield
                    /\ player2.hp <= 0
               advance == enemy_defeated /\ ~player_defeated
               encounter1 == IF advance THEN state.current_encounter + 1
                             ELSE state.current_encounter
               game_won == advance /\ encounter1 > state.total_encounters
               raised == game_won /\ bulk_save_states_raises(states1)
               drops == dropped(enemy_defeated, explored_drops)
               enemies == IF advance /\ ~game_won
                          THEN explored(generate_enemy(encounter1, state.total_encounters))
                          ELSE {enemy1}
               picks == IF ~player_defeated /\ ~game_won
                        THEN select_next_card(Cards, states1, new_cards_shown, now)
                        ELSE {[card |-> state.current_card, shown |-> new_cards_shown]}
           IN \E drop \in drops, enemy2 \in enemies, r \in picks :
               LET gs == [state EXCEPT
                            !.cards_reviewed = @ + 1,
                            !.cards_correct = IF response \in {"good", "easy"}
                                              THEN @ + 1 ELSE @,
                            !.current_enemy = enemy2,
                            !.player = player2,
                            !.inventory = IF drop # "None" THEN Append(@, drop) ELSE @,
                            !.current_encounter = encounter1]
               IN /\ states' = states1
                  /\ stats' = answered_stats(stats, response)
                  /\ db_states' = [db_states EXCEPT ![card_id] = updated_state]
                  /\ review_history' = review_history + 1
                  /\ new_cards_shown' = r.shown
                  /\ state' = IF ~player_defeated /\ ~game_won
                              THEN load_next_card(gs, r.card) ELSE gs
                  /\ result' = IF raised
                               THEN Result("answer_card", FALSE, "KeyError", response,
                                           FALSE, FALSE, FALSE)
                               ELSE [Result("answer_card", TRUE, "None", response,
                                            enemy_defeated, player_defeated, game_won)
                                        EXCEPT !.damage = damage]
    /\ UNCHANGED <<now, srVars, selected, saves>>

\* answer_card with the draws of the game specification
answer_card(response) ==
    answer_card_drawing(response, DamageRolls(from_string(response)), ExploredDrops,
                        MaxReviews)

\* GameEngine.use_powerup(powerup_id)
use_powerup(powerup_id) ==
    /\ state # NoGame
    /\ IF powerup_rejected(state, powerup_id)
       THEN /\ result' = Returned_failure("use_powerup")
            /\ UNCHANGED state
       ELSE LET effect == POWERUPS[powerup_id]
                p == state.player
                e == state.current_enemy
            IN /\ state' = instant_damage([state EXCEPT
                    !.inventory = remove(@, powerup_id),
                    !.player = [p EXCEPT
                        !.hp = healed(p, effect.heal),
                        !.shield = @ + effect.shield,
                        !.damage_boost = IF effect.damage_boost # 0
                                         THEN effect.damage_boost ELSE @,
                        !.score_boost = IF effect.score_boost # 0
                                        THEN effect.score_boost ELSE @],
                    !.active_powerups = [@ EXCEPT
                        !.damage_boost = IF effect.damage_boost # 0
                                         THEN effect.duration ELSE @,
                        !.score_boost = IF effect.score_boost # 0
                                        THEN effect.duration ELSE @]],
                    effect.instant_damage)
               /\ result' = [Returned_ok("use_powerup") EXCEPT !.powerup = powerup_id]
    /\ UNCHANGED <<now, srVars, selVars, db_states, review_history, saves>>

\* the ids a client sends: the drops explored, a powerup that never drops
\* here, and a string that names no powerup
PowerupIds == (ExploredDrops \ {"None"}) \cup {"health_potion", "bogus"}

Next ==
    \/ new_game
    \/ reveal_card
    \/ \E response \in Responses : answer_card(response)
    \/ \E powerup_id \in PowerupIds : use_powerup(powerup_id)

Spec == Init /\ [][Next]_vars

\* GameEngine.save_game(save_name): create_save, then bulk_save_states on
\* the card manager's states
save_game ==
    /\ state # NoGame
    /\ Len(saves) < MaxSaves
    /\ saves' = Append(saves, to_dict(state))
    /\ IF bulk_save_states_raises(states)
       THEN /\ result' = Result("save_game", FALSE, "KeyError", "None",
                                FALSE, FALSE, FALSE)
            /\ UNCHANGED db_states
       ELSE /\ result' = [Returned_ok("save_game") EXCEPT !.save_id = Len(saves')]
            /\ db_states' = states
    /\ UNCHANGED <<now, srVars, selVars, state, review_history>>

\* GameEngine.load_game(save_id), on the session's engine or, as the
\* /api/game/load route calls it, on a new GameEngine: the state is rebuilt
\* from the snapshot, the card manager from the review_state table
load_game(save_id) ==
    /\ LET save_data == get_save(saves, save_id) IN
       IF save_data = <<>>
       THEN /\ result' = [Returned_failure("load_game") EXCEPT !.save_id = save_id]
            /\ UNCHANGED <<state, states, new_cards_shown, stats>>
       ELSE /\ state' = from_dict(save_data[1])
            /\ states' = db_states
            /\ new_cards_shown' = 0
            /\ stats' = calculate_stats
            /\ result' = [Returned_ok("load_game") EXCEPT !.save_id = save_id]
    /\ UNCHANGED <<now, srVars, selected, db_states, review_history, saves>>

\* the server process starts again: game_sessions = {} (app.py), the tables
\* are kept
restart ==
    /\ state # NoGame
    /\ saves # <<>>
    /\ state' = NoGame
    /\ states' = [c \in CardIds |-> CardReviewState(c)]
    /\ new_cards_shown' = 0
    /\ stats' = calculate_stats
    /\ result' = NoResult
    /\ UNCHANGED <<now, srVars, selected, db_states, review_history, saves>>

\* -------------------------------------------------------------------------
\* Persistence specification: sessions of at most MaxSavedReviews answers,
\* rated with one of SavedResponses, saved and loaded
\* -------------------------------------------------------------------------
\* the rating strings a client sends here: two ratings and a string that is
\* none of the four
SavedResponses == {"again", "easy", "bogus"}
SaveIds == 1..(MaxSaves + 1)

\* answer_card in a session of at most MaxSavedReviews answers, with the
\* highest roll and no drop
saved_answer_card(response) ==
    /\ review_history < MaxSavedReviews
    /\ answer_card_drawing(response, {get_damage_range(from_string(response))[2]},
                           {"None"}, MaxSavedReviews)

SaveNext ==
    \/ new_game
    \/ reveal_card
    \/ \E response \in SavedResponses : saved_answer_card(response)
    \/ save_game
    \/ \E save_id \in SaveIds : load_game(save_id)
    \/ restart

SpecSave == Init /\ [][SaveNext]_vars

\* -------------------------------------------------------------------------
\* Play specification: one session played from new_game to its end, reveal_card
\* and answer_card being called again and again, use_powerup only with an
\* item of the inventory
\* -------------------------------------------------------------------------
\* the session is Won, Lost, over (Terminal) or on (Active)
Won(gs) == gs # NoGame /\ gs.current_encounter > gs.total_encounters
Lost(gs) == gs # NoGame /\ gs.player.hp <= 0
Terminal(gs) == Won(gs) \/ Lost(gs)
\* the session is Active: a game is on and neither Won nor Lost
Active(gs) == gs # NoGame /\ ~Terminal(gs)

\* the ratings given, the drops explored (a heal-and-shield item and an
\* instant-damage item)
PlayResponses == {"again", "easy"}
PlayDrops == {"None", "energy_drink", "meteor"}

\* answer_card while the session is on, with the highest roll; no session
\* here is longer than MaxPlayReviews answers
played_answer_card(response) ==
    /\ ~Terminal(state)
    /\ answer_card_drawing(response, {get_damage_range(from_string(response))[2]},
                           PlayDrops, MaxPlayReviews)

\* use_powerup with an item the inventory holds
played_use_powerup(powerup_id) ==
    /\ Active(state)
    /\ powerup_id \in Range(state.inventory)
    /\ use_powerup(powerup_id)

PlayNext ==
    \/ new_game
    \/ reveal_card
    \/ \E response \in PlayResponses : played_answer_card(response)
    \/ \E powerup_id \in PlayDrops \ {"None"} : played_use_powerup(powerup_id)

\* the client keeps calling reveal_card and answer_card
SpecPlay ==
    /\ Init /\ [][PlayNext]_vars
    /\ WF_vars(new_game)
    /\ WF_vars(reveal_card)
    /\ WF_vars(\E response \in PlayResponses : played_answer_card(response))

\* -------------------------------------------------------------------------
\* Enemy specification: _generate_enemy for encounter n of a game of N
\* -------------------------------------------------------------------------
\* the session as _generate_enemy finds it: encounter n of total, the enemy
\* not generated yet
EnemyInit ==
    /\ now = 0
    /\ SRIdle
    /\ SelIdle
    /\ db_states = [c \in CardIds |-> CardReviewState(c)]
    /\ review_history = 0
    /\ saves = <<>>
    /\ result = NoResult
    /\ \E total \in 1..MaxEncounters : \E n \in 1..total :
          state = [NoGame EXCEPT !.deck_id = 1,
                                 !.current_encounter = n,
                                 !.total_encounters = total]

\* current_enemy = _generate_enemy(current_encounter)
generate_current_enemy ==
    /\ result = NoResult
    /\ \E enemy \in generate_enemy(state.current_encounter, state.total_encounters) :
          state' = [state EXCEPT !.current_enemy = enemy]
    /\ result' = Returned_ok("generate_enemy")
    /\ UNCHANGED <<now, srVars, selVars, db_states, review_history, saves>>

EnemyNext == generate_current_enemy

SpecEnemy == EnemyInit /\ [][EnemyNext]_vars

\* =========================================================================
\* Properties
\* =========================================================================

\* ---- game (Spec) ----

\* C1: once the session is Won or Lost, an answer returns an error and
\* changes nothing: score, encounter index, player, enemy and the cards'
\* review states stay as they are.
C1_TerminalAnswerRejected ==
    [][(Terminal(state) /\ result'.op = "answer_card")
        => /\ ~result'.success
           /\ state'.player = state.player
           /\ state'.current_encounter = state.current_encounter
           /\ state'.current_enemy = state.current_enemy
           /\ states' = states]_vars

\* C2: an answer given while the card is not revealed, or with no current
\* card, returns a failure without raising and changes nothing (review
\* states, player, enemy, counters, inventory, encounter; no review event is
\* recorded); and after a successful answer that ends neither in defeat nor
\* in victory the card is unrevealed again.
C2_UnrevealedAnswerRejected ==
    [][result'.op = "answer_card"
        => /\ (~state.card_revealed \/ state.current_card = NoCard)
                => /\ ~result'.success
                   /\ result'.raised = "None"
                   /\ state' = state
                   /\ states' = states
                   /\ db_states' = db_states
                   /\ review_history' = review_history
                   /\ new_cards_shown' = new_cards_shown
           /\ (result'.success /\ ~result'.player_defeated /\ ~result'.game_won)
                => ~state'.card_revealed]_vars

\* a second answer without a new reveal was rejected
C2_Witness ==
    /\ result.op = "answer_card"
    /\ ~result.success
    /\ state.cards_reviewed > 0
    /\ state.current_card # NoCard
    /\ ~state.card_revealed

\* C3: an answer that brings the enemy of the final encounter to 0 hp
\* completes normally: it returns success with enemy defeated and game won,
\* the session is Won and no next card is selected.
C3_FinalDefeatCompletes ==
    [][(/\ result'.op = "answer_card"
        /\ state.card_revealed
        /\ state.current_encounter = state.total_encounters
        /\ state.current_enemy.hp > 0
        /\ state'.current_enemy.hp = 0)
        => /\ result'.raised = "None"
           /\ result'.success
           /\ result'.enemy_defeated
           /\ result'.game_won
           /\ Won(state')
           /\ state'.current_card = state.current_card
           /\ new_cards_shown' = new_cards_shown]_vars

\* C4: on "again" the enemy attacks with its damage D: the shield loses
\* min(shield, D), hp loses min(hp, D - absorbed), the enemy's hp stays; and
\* when hp becomes 0 the result reports the player defeated, the session is
\* Lost and no next card is selected.
C4_AgainEnemyAttack ==
    [][(result'.op = "answer_card" /\ result'.response = "again")
        => LET D == state.current_enemy.damage
               absorbed == Min(state.player.shield, D)
           IN /\ result'.success
              /\ state'.player.shield = state.player.shield - absorbed
              /\ state'.player.hp =
                    state.player.hp - Min(state.player.hp, D - absorbed)
              /\ state'.current_enemy.hp = state.current_enemy.hp
              /\ (state.player.hp > 0 /\ state'.player.hp = 0)
                    => /\ result'.player_defeated
                       /\ Lost(state')
                       /\ state'.current_card = state.current_card
                       /\ state'.card_revealed
                       /\ new_cards_shown' = new_cards_shown]_vars

\* an "again" brought the player to 0 hp
C4_Witness ==
    /\ result.op = "answer_card"
    /\ result.response = "again"
    /\ result.player_defeated
    /\ state.player.hp = 0
    /\ state.card_revealed

\* C12: the damage rolled for an answer, before the player's multiplier and
\* with base damage 20, is exactly 0 for again, within [160%, 240%] of the
\* base for easy and within [24%, 36%] of the base for hard.
C12_DamageRanges ==
    [][(/\ result'.op = "answer_card"
        /\ result'.success
        /\ state.player.damage_boost <= 100)
        => /\ result'.response = "again" => result'.damage = 0
           /\ result'.response = "easy"
                => /\ 160 * 20 <= 100 * result'.damage
                   /\ 100 * result'.damage <= 240 * 20
           /\ result'.response = "hard"
                => /\ 24 * 20 <= 100 * result'.damage
                   /\ 100 * result'.damage <= 36 * 20]_vars

\* an answer was processed: it returned success or raised on the way out
Processed(r) == r.op = "answer_card" /\ r.response # "None"

\* C13: a timed damage or score multiplier applied by use_powerup with a
\* duration of d turns counts down as cards are answered, and the multiplier
\* is back to 1.0 once d answers are processed; it does not stay raised.
C13_BoostDecays ==
    [][Processed(result')
        => \A k \in {"damage_boost", "score_boost"} :
            state.active_powerups[k] > 0
                => /\ state'.active_powerups[k] = state.active_powerups[k] - 1
                   /\ state'.active_powerups[k] = 0 => state'.player[k] = 100]_vars

\* C14: use_powerup with an id that is not in the inventory returns a
\* failure and leaves the player (hp, shield, multipliers, score), the enemy
\* and the inventory unchanged.  A call that succeeds names the id it used,
\* so "not in the inventory, hence failure" is "success, hence in the
\* inventory".
C14_AbsentPowerupRejected ==
    [][result'.op = "use_powerup"
        => /\ result'.success => result'.powerup \in Range(state.inventory)
           /\ ~result'.success
                => /\ state'.player = state.player
                   /\ state'.current_enemy = state.current_enemy
                   /\ state'.inventory = state.inventory]_vars

\* a use_powerup call failed although the inventory holds an item
C14_Witness ==
    /\ result.op = "use_powerup"
    /\ ~result.success
    /\ state.inventory # <<>>

\* occurrences of x in a sequence
Count(seq, x) == Cardinality({i \in 1..Len(seq) : seq[i] = x})

C20_VitalsInRange ==
    state # NoGame
        => /\ 0 <= state.player.hp
           /\ state.player.hp <= state.player.max_hp
           /\ state.player.shield >= 0
           /\ state.player.damage_boost >= 100
           /\ state.player.score_boost >= 100
           /\ 0 <= state.current_enemy.hp
           /\ state.current_enemy.hp <= state.current_enemy.max_hp

\* a healing powerup was used by a player at full hp
C20_Witness ==
    /\ result.op = "use_powerup"
    /\ result.success
    /\ POWERUPS[result.powerup].heal > 0
    /\ state.player.hp = state.player.max_hp

\* the step is an answer that defeated the current enemy: the result says so,
\* or the call raised on the way out of the last encounter
Defeats(gs, r, gs2) ==
    /\ r.op = "answer_card"
    /\ \/ r.enemy_defeated
       \/ r.raised # "None" /\ Won(gs2) /\ gs2.current_enemy.hp = 0

\* C22: the encounter index starts at 1 and changes only in answer_card, by
\* exactly +1, when the answer defeats the current enemy; if that enemy was
\* not the last one, the current enemy becomes a newly generated enemy for
\* the new index at full hp.  While the session is Active,
\* 1 <= index <= total and the enemy's difficulty equals the index.
C22_EncounterIndex ==
    [][/\ (state = NoGame /\ state' # NoGame) => state'.current_encounter = 1
       /\ (state # NoGame /\ state'.current_encounter # state.current_encounter)
            => /\ Defeats(state, result', state')
               /\ state'.current_encounter = state.current_encounter + 1
       /\ (state # NoGame /\ Defeats(state, result', state'))
            => /\ state'.current_encounter = state.current_encounter + 1
               /\ state'.current_encounter <= state'.total_encounters
                    => /\ state'.current_enemy \in
                            generate_enemy(state'.current_encounter,
                                           state'.total_encounters)
                       /\ state'.current_enemy.hp = state'.current_enemy.max_hp
       /\ Active(state')
            => /\ 1 <= state'.current_encounter
               /\ state'.current_encounter <= state'.total_encounters
               /\ state'.current_enemy.difficulty = state'.current_encounter]_vars

\* an answer defeated the first enemy and the next one stands at full hp
C22_Witness ==
    /\ result.op = "answer_card"
    /\ result.enemy_defeated
    /\ Active(state)
    /\ state.current_encounter = 2
    /\ state.current_enemy.hp = state.current_enemy.max_hp

\* C23: an answer adds at most one item to the inventory, and only when it
\* defeats the enemy; the item is a configured powerup id appended to the
\* inventory, and its effect is not applied: the drop changes neither the
\* player's hp, shield nor multipliers.  Apart from such drops the inventory
\* changes only through use_powerup.
C23_Drops ==
    [][/\ result'.op = "answer_card"
            => \/ state'.inventory = state.inventory
               \/ /\ Defeats(state, result', state')
                  /\ \E id \in DOMAIN POWERUPS :
                        state'.inventory = Append(state.inventory, id)
                  /\ state'.player.hp = state.player.hp
                  /\ state'.player.shield = state.player.shield
                  /\ state'.player.damage_boost = state.player.damage_boost
                  /\ state'.player.score_boost = state.player.score_boost
       /\ state'.inventory # state.inventory
            => result'.op \in {"answer_card", "use_powerup"}]_vars

\* a healing and shielding item was dropped to a wounded player without a
\* shield, and neither hp nor shield moved
C23_Witness ==
    /\ result.op = "answer_card"
    /\ result.enemy_defeated
    /\ state.inventory = <<"energy_drink">>
    /\ state.player.hp < state.player.max_hp
    /\ state.player.shield = 0

\* C26: total_reviews and correct_reviews of the card manager's stats count
\* the answers of the session: they are 0 when the card manager is created,
\* and every processed answer adds 1 to total_reviews and adds 1 to
\* correct_reviews exactly when the rating is good or easy.
C26_SessionCounters ==
    [][/\ result'.op = "new_game"
            => stats' = [total_reviews |-> 0, correct_reviews |-> 0]
       /\ Processed(result')
            => /\ stats'.total_reviews = stats.total_reviews + 1
               /\ stats'.correct_reviews = stats.correct_reviews
                    + (IF result'.response \in {"good", "easy"} THEN 1 ELSE 0)]_vars

\* the classes of select_next_card a card id is in, for the present states
ClassesOf(c) ==
    {k \in {"learning", "due", "new", "future"} :
        c \in Range(CASE k = "learning" -> learning_list(Cards, states)
                      [] k = "due" -> due_list(Cards, states, now)
                      [] k = "new" -> new_list(Cards, states)
                      [] k = "future" -> future_list(Cards, states, now))}

\* C27: with review states that all derive from default states through
\* reviews, a card is learning or has been reviewed, every card of the deck is
\* in exactly one of the learning, due, new and future classes, the next
\* select_next_card call returns a card of the deck without falling through
\* to the recycle step, and an Active session has a current card.
C27_AlwaysACard ==
    /\ card.is_learning \/ card.total_reviews > 0
    /\ \A c \in CardIds :
        /\ states[c].is_learning \/ states[c].total_reviews > 0
        /\ Cardinality(ClassesOf(c)) = 1
    /\ \A r \in select_next_card(Cards, states, new_cards_shown, now) :
        /\ r.card \in CardIds
        /\ \/ states[r.card].is_learning
           \/ learning_list(Cards, states) = <<>>
                /\ (due_list(Cards, states, now) # <<>>
                    \/ (new_list(Cards, states) # <<>>
                            /\ new_cards_shown < new_cards_per_session)
                    \/ future_list(Cards, states, now) # <<>>)
    /\ Active(state) => state.current_card \in CardIds

\* every card has graduated and the answer just processed left the session
\* Active: the card now current was served by the future class
C27_Witness ==
    /\ Processed(result)
    /\ Active(state)
    /\ \A c \in CardIds : ~states[c].is_learning
    /\ state.current_card \in CardIds

\* ---- play to the end (SpecPlay) ----

\* the enemy the answer of the step was given against lost at least 1 hp: it
\* stays the current enemy with less hp, or it had hp left and was defeated
EnemyLowered ==
    IF state'.current_encounter # state.current_encounter /\ ~Won(state')
    THEN state.current_enemy.hp >= 1
    ELSE state'.current_enemy.hp <= state.current_enemy.hp - 1

\* the player's shield plus hp went down by at least 1 in the step
PlayerLowered ==
    state'.player.shield + state'.player.hp
        <= state.player.shield + state.player.hp - 1

\* the inventory grows only in an answer that defeats the enemy
LootOnlyFromDefeats ==
    Len(state'.inventory) > Len(state.inventory)
        => Defeats(state, result', state')

Identity(e) == [e EXCEPT !.hp = 0]

ScaledStat(base, n) == (base * (10 + 2 * (n - 1))) \div 10

\* C21: the enemy generated for encounter n of N is a boss exactly when
\* n = N; otherwise its type comes from the easiest pool when n/N < 0.3, from
\* the mid pool when 0.3 <= n/N < 0.7 and from the hardest pool otherwise; it
\* has hp = max_hp = floor(base hp * (1 + (n - 1) * 0.2)), and damage and
\* score value scaled by the same factor.
C21_GeneratedEnemy ==
    result.op = "generate_enemy" =>
        LET e == state.current_enemy
            n == state.current_encounter
            total == state.total_encounters
            base == IF e.is_boss THEN BOSS_TYPES[e.enemy_type]
                    ELSE ENEMY_TYPES[e.enemy_type]
        IN /\ e.is_boss <=> n = total
           /\ e.is_boss => e.enemy_type \in DOMAIN BOSS_TYPES
           /\ ~e.is_boss =>
                e.enemy_type \in
                    (IF 10 * n < 3 * total THEN {"slime", "skeleton", "ghost"}
                     ELSE IF 10 * n < 7 * total THEN {"skeleton", "ghost", "zombie"}
                     ELSE {"zombie", "demon", "dragon"})
           /\ e.hp = ScaledStat(base.hp, n)
           /\ e.max_hp = e.hp
           /\ e.damage = ScaledStat(base.damage, n)
           /\ e.score_value = ScaledStat(base.score, n)

\* ---- persistence (SpecSave) ----

\* C16: save_game on an Active session completes normally and returns a save
\* id after storing the snapshot and the review state of every in-memory
\* card, and leaves the session state and the card review states unchanged.
C16_SaveCompletes ==
    [][(result'.op = "save_game" /\ Active(state))
        => /\ result'.raised = "None"
           /\ result'.success
           /\ result'.save_id \in DOMAIN saves'
           /\ saves'[result'.save_id] = to_dict(state)
           /\ db_states' = states
           /\ state' = state
           /\ states' = states]_vars

\* the cards select_next_card may return
next_cards(sts, shown, t) == {r.card : r \in select_next_card(Cards, sts, shown, t)}

\* C17: a session saved to a snapshot and rebuilt from it has the same
\* player, enemy, encounter index and total, inventory, current card,
\* revealed flag and cards-reviewed and cards-correct counters, and its next
\* select_next_card call returns the same card.
C17_SnapshotRoundTrip ==
    [][(/\ result.op = "save_game"
        /\ result'.op = "load_game"
        /\ result'.success
        /\ result'.save_id = Len(saves))
        => /\ state'.player = state.player
           /\ state'.current_enemy = state.current_enemy
           /\ state'.current_encounter = state.current_encounter
           /\ state'.total_encounters = state.total_encounters
           /\ state'.inventory = state.inventory
           /\ state'.current_card = state.current_card
           /\ state'.card_revealed = state.card_revealed
           /\ state'.cards_reviewed = state.cards_reviewed
           /\ state'.cards_correct = state.cards_correct
           /\ next_cards(states', new_cards_shown', now')
                = next_cards(states, new_cards_shown, now)]_vars

C19_InvalidRatingRejected ==
    [][(\E response \in SavedResponses \ Responses : saved_answer_card(response))
        => /\ ~result'.success
           /\ result'.raised = "None"
           /\ states' = states
           /\ db_states' = db_states
           /\ review_history' = review_history
           /\ state' = state]_vars

\* ---- selector (SpecSel) ----
\* the card the last select_next_card call returned, when it returned one
Returned == selected.card \in CardIds
Called == selected # NoCall
CapReached == selected.shown >= new_cards_per_session

\* the five classes as sets of card ids
LearningClass == {c \in CardIds : states[c].is_learning}
Graduated(c) == ~states[c].is_learning /\ states[c].total_reviews > 0
DueClass ==
    {c \in CardIds : Graduated(c) /\ (states[c].next_review = NoTime
                                      \/ states[c].next_review <= now)}
NeverReviewed == {c \in CardIds : states[c].total_reviews = 0}
NewClass == IF CapReached THEN {} ELSE NeverReviewed
FutureClass ==
    {c \in CardIds : Graduated(c) /\ states[c].next_review # NoTime
                                  /\ states[c].next_review > now}
RecycleClass ==
    {c \in CardIds : states[c].last_response \in {"HARD", "AGAIN", "GOOD"}}
RecycleRank(c) ==
    CASE states[c].last_response = "HARD" -> 1
      [] states[c].last_response = "AGAIN" -> 2
      [] OTHER -> 3

\* C5: once new_cards_shown has reached new_cards_per_session, select_next_card
\* never returns a card with total_reviews = 0.
C5_NoNewCardAtCap ==
    (Returned /\ CapReached) => states[selected.card].total_reviews # 0

\* C6: select_next_card returns a card of the first non-empty class in the
\* order learning, due, new (while the cap is not reached), future (soonest
\* next_review first), recycle (HARD before AGAIN before GOOD, never EASY), and
\* returns None only when none of the five classes yields a card.
C6_FirstNonEmptyClass ==
    Called =>
        IF LearningClass # {} THEN selected.card \in LearningClass
        ELSE IF DueClass # {} THEN selected.card \in DueClass
        ELSE IF NewClass # {} THEN selected.card \in NewClass
        ELSE IF FutureClass # {}
        THEN /\ selected.card \in FutureClass
             /\ \A c \in FutureClass :
                    states[selected.card].next_review <= states[c].next_review
        ELSE IF RecycleClass # {}
        THEN /\ selected.card \in RecycleClass
             /\ \A c \in RecycleClass : RecycleRank(selected.card) <= RecycleRank(c)
        ELSE selected.card = NoCard

\* the cap is reached, never-reviewed cards exist, and the later of two future
\* cards in list order is returned because it is due sooner
C6_Witness ==
    /\ Called /\ CapReached
    /\ LearningClass = {} /\ DueClass = {}
    /\ FutureClass = {1, 2}
    /\ states[2].next_review < states[1].next_review
    /\ selected.card = 2

\* the priority score as the specification states it
C7_Score(c) ==
    LET s == states[c]
        overdue == IF s.next_review # NoTime /\ s.next_review <= now
                   THEN Min(50, 5 * ((now - s.next_review) \div DAY)) ELSE 0
        fresh == IF s.total_reviews = 0 THEN 20 ELSE 0
        lowAccuracy == IF s.total_reviews >= 3
                          /\ 100 * s.total_correct < 60 * s.total_reviews
                       THEN 20 ELSE 0
        learning == IF s.is_learning THEN 15 ELSE 0
        lapsed == IF s.is_lapsed THEN 25 ELSE 0
        sum == overdue + fresh + lowAccuracy + learning + lapsed
    IN IF sum > 100 THEN 100 ELSE sum

\* C7: a card returned from the learning class, or from the due class, has the
\* greatest priority score of its class.
C7_MaxPriorityFirst ==
    Called =>
        IF LearningClass # {}
        THEN \A c \in LearningClass : C7_Score(c) <= C7_Score(selected.card)
        ELSE DueClass # {} =>
                \A c \in DueClass : C7_Score(c) <= C7_Score(selected.card)

\* two due cards scoring 40 and 80, the second in the list scoring 80
C7_Witness ==
    /\ Called
    /\ DueClass = {1, 2} /\ LearningClass = {}
    /\ C7_Score(1) = 40 /\ C7_Score(2) = 80
    /\ selected.card = 2

\* ---- scheduler (SpecSR) ----

\* C11: for every card state, review_card(state, AGAIN) yields repetitions 0,
\* is_learning true, interval 0, total_incorrect and total_reviews each one
\* more, last_response AGAIN and next_review one minute after now (the first
\* learning step).
C11_AgainResets ==
    [][(now' = now /\ rating' = "AGAIN")
        => /\ card'.repetitions = 0
           /\ card'.is_learning
           /\ card'.interval = 0
           /\ card'.total_incorrect = card.total_incorrect + 1
           /\ card'.total_reviews = card.total_reviews + 1
           /\ card'.last_response = "AGAIN"
           /\ card'.next_review = now + 1]_vars

\* AGAIN on a graduated card that had an interval and repetitions
C11_Witness ==
    /\ rating = "AGAIN"
    /\ ~before.is_learning
    /\ before.interval > 1
    /\ before.repetitions > 0
    /\ card.interval = 0

C25_EasyReview ==
    [][(now' = now /\ rating' = "EASY")
        => IF card.is_learning
           THEN /\ ~card'.is_learning
                /\ ~card'.is_lapsed
                /\ card'.repetitions = 1
                /\ card'.interval = 4
           ELSE /\ ~card'.is_learning
                /\ card'.interval =
                     (IF gradRun = 0 THEN 4
                      ELSE MulDiv(card.interval, card'.ease_factor * 130, 10000))]_vars

\* C28: in every card state reached from the default state by reviews, a
\* learning card has interval 0 and a graduated card has interval >= 1 and
\* repetitions >= 1; so a GOOD or EASY review of a graduated card never
\* leaves repetitions at 1, the case of the first-repetition branches.
C28_LearningShape ==
    /\ card.is_learning => card.interval = 0
    /\ ~card.is_learning => (card.interval >= 1 /\ card.repetitions >= 1)
    /\ (rating \in {"GOOD", "EASY"} /\ ~before.is_learning)
            => card.repetitions # 1

\* a graduated card with the fewest repetitions was reviewed EASY
C28_Witness ==
    /\ rating = "EASY"
    /\ ~before.is_learning
    /\ before.repetitions = 1
    /\ card.repetitions = 2

\* C8: after review(state, again), is_lapsed is true exactly when is_learning
\* was false before the call.
C8_LapsedIffGraduated ==
    rating = "AGAIN" => (card.is_lapsed <=> ~before.is_learning)

\* C9: the consecutive GOOD reviews that follow a graduation give the
\* intervals 1, 6, floor(6 * ease) and then floor(previous * ease).
C9_GoodIntervalSequence ==
    (rating = "GOOD" /\ gradRun >= 1) =>
        card.interval = (CASE gradRun = 1 -> 1
                           [] gradRun = 2 -> 6
                           [] OTHER -> (before.interval * card.ease_factor) \div 100)

\* C10: the ease factor stays within [1.3, 3.5]; AGAIN lowers it by 0.20 and
\* HARD by 0.15, both floored at 1.3, EASY raises it by 0.15 capped at 3.5,
\* GOOD leaves it unchanged.
C10_EaseFactorBounds ==
    /\ 130 <= card.ease_factor /\ card.ease_factor <= 350
    /\ rating = "AGAIN" =>
         card.ease_factor = (IF before.ease_factor - 20 < 130 THEN 130
                             ELSE before.ease_factor - 20)
    /\ rating = "HARD" =>
         card.ease_factor = (IF before.ease_factor - 15 < 130 THEN 130
                             ELSE before.ease_factor - 15)
    /\ rating = "EASY" =>
         card.ease_factor = (IF before.ease_factor + 15 > 350 THEN 350
                             ELSE before.ease_factor + 15)
    /\ rating = "GOOD" => card.ease_factor = before.ease_factor

\* an AGAIN review that would have taken the ease factor below 1.3
C10_Witness ==
    /\ rating = "AGAIN"
    /\ before.ease_factor - 20 < 130
    /\ card.ease_factor = 130

====
